---- MODULE Spec2Model ----
(***************************************************************************)
(* Model of backend/main.py: the upload / download handlers, the admin     *)
(* force-delete handler and the cleanup thread, over the two shared stores *)
(* (the Redis index `r` and the uploads directory).                        *)
(*                                                                         *)
(* Every Redis command and every filesystem call is one atomic step; the   *)
(* Python code between two such calls is folded into the step before it.   *)
(* Values stored in Redis are strings in the program (decode_responses);   *)
(* the counters are kept as integers here, int(str(n)) = n.  Identifiers   *)
(* hold no whitespace, so file_id.strip() of download_file returns them    *)
(* as they are.  The variables sent, removed, due, ncalls, served, incs    *)
(* and policy, and the fields late and prompt of a download, are history:  *)
(* no step of the program reads them.                                      *)
(***************************************************************************)
EXTENDS Integers, Sequences, FiniteSets, TLC

(* ------------------------------ bounds --------------------------------- *)

\* number of identifiers uuid4 may hand out to uploads
MaxUploads == 1
\* number of download_file calls in one behaviour
MaxCalls == 2
\* download_file calls racing on one file
MaxRaceCalls == 3
\* download_file calls of the sequential specification (> MAX_DOWNLOADS + 1)
MaxSeqCalls == 103
\* largest ceiling, besides the program's own, of a record found in the index
MaxScanUploads == 4      \* uploads whose scan decision is recorded
MaxPreQuota == 2

(* --------------------------- program constants ------------------------- *)

\* "max_downloads": 100 in upload_file, and the default of data.get
MAX_DOWNLOADS == 100

\* the request handlers that run at once
Downloaders == {"d1", "d2", "d3"}
Uploaders == {"u1"}

\* File identifiers (str(uuid.uuid4()) values): "f0" names the record that is
\* already in the stores when the process starts, the others are the values
\* uuid4 returns afterwards.
PreId == "f0"
UuidValues == <<"f1", "f2", "f3", "f4", "f5", "f6">>
UploadIds == {UuidValues[i] : i \in 1..MaxUploads}
Ids == {PreId} \cup UploadIds
NoId == ""

Contents == {"abc", "xyz"}
FileNames == {"report.pdf"}
\* Fernet.generate_key() values, one per upload; "k0" is the key of PreId
KeyValues == <<"k1", "k2", "k3", "k4", "k5", "k6">>

(* ------------------------------ passwords ------------------------------ *)

\* a password is None or a str; a str is a sequence of characters
NonePwd == [none |-> TRUE, str |-> <<>>]
Str(s) == [none |-> FALSE, str |-> s]

IsSpace(c) == c = " "

RECURSIVE LStrip(_)
LStrip(s) == IF s # <<>> /\ IsSpace(Head(s)) THEN LStrip(Tail(s)) ELSE s

RECURSIVE RStrip(_)
RStrip(s) ==
    IF s # <<>> /\ IsSpace(s[Len(s)]) THEN RStrip(SubSeq(s, 1, Len(s) - 1)) ELSE s

\* str.strip()
Strip(s) == RStrip(LStrip(s))

\* Python truthiness of an Optional[str]
Truthy(p) == ~p.none /\ p.str # <<>>

\* hashlib.sha256(pwd.encode()).hexdigest(): a digest, one per string
hash_password(s) == <<"sha256", s>>

(* ------------------------------ the stores ----------------------------- *)

\* A Redis hash is a function from field names to values; a missing key
\* reads as the empty hash.
EmptyHash == [f \in {} |-> 0]

HashMerge(new, old) ==
    [f \in DOMAIN new \cup DOMAIN old |-> IF f \in DOMAIN new THEN new[f] ELSE old[f]]

\* r.exists(key)
RExists(idx, id) == id \in DOMAIN idx

\* r.hgetall(key)
HGetAll(idx, id) == IF id \in DOMAIN idx THEN idx[id] ELSE EmptyHash

\* r.hset(key, mapping=...): sets the given fields, creating the key if needed
HSet(idx, id, mapping) ==
    [k \in DOMAIN idx \cup {id} |->
        IF k = id THEN HashMerge(mapping, HGetAll(idx, id)) ELSE idx[k]]

\* an increment that is not applied
HIncrBy_Lost(idx, id, field, n) == idx

\* r.hincrby(key, field, n): a missing key or field counts as 0 and is created
HIncrBy(idx, id, field, n) ==
    LET old == HGetAll(idx, id)
        cur == IF field \in DOMAIN old THEN old[field] ELSE 0
    IN  HSet(idx, id, [f \in {field} |-> cur + n])

\* r.delete(key)
RDelete(idx, id) == [k \in DOMAIN idx \ {id} |-> idx[k]]

\* os.path.join(UPLOAD_DIR, f"{file_id}.enc")
EncPath(id) == <<id, ".enc">>
\* filename.endswith(".enc") and filename.replace(".enc", "")
EndsWithEnc(name) == name[2] = ".enc"
IdOfName(name) == name[1]
NoFile == <<>>

\* os.path.exists(path)
PathExists(dsk, path) == path \in DOMAIN dsk
\* open(path, "wb").write(bytes): creates or truncates
WriteFile(dsk, path, bytes) ==
    [p \in DOMAIN dsk \cup {path} |-> IF p = path THEN bytes ELSE dsk[p]]
\* os.remove(path), for a path that exists
RemoveFile(dsk, path) == [p \in DOMAIN dsk \ {path} |-> dsk[p]]

(* ------------------------------- Fernet -------------------------------- *)

\* cipher.encrypt: an authenticated token bound to the key
Encrypt(key, plain) == [key |-> key, plain |-> plain]
\* a cipher without authentication: decrypt never raises
DecryptOk_Unauthenticated(key, token) == TRUE
\* cipher.decrypt raises InvalidToken unless the token was made with the key
DecryptOk(key, token) == token.key = key
Decrypt(key, token) == token.plain

(* ------------------------------ the scanner ---------------------------- *)

\* What the clamd side does for one request: whether the library was imported,
\* whether a call raises, the answer to ping and the 'stream' entry of the
\* instream result ("" when the result has none).
ScanReplies ==
    { [clamd |-> FALSE, raises |-> FALSE, ping |-> "",     stream |-> ""],
      [clamd |-> TRUE,  raises |-> TRUE,  ping |-> "",     stream |-> ""],
      [clamd |-> TRUE,  raises |-> FALSE, ping |-> "",     stream |-> ""],
      [clamd |-> TRUE,  raises |-> FALSE, ping |-> "PONG", stream |-> ""],
      [clamd |-> TRUE,  raises |-> FALSE, ping |-> "PONG", stream |-> "OK"],
      [clamd |-> TRUE,  raises |-> FALSE, ping |-> "PONG", stream |-> "FOUND"] }

\* lines 77, 80, 82, 89: the ways a scan gives no verdict ("" when it gives one)
Way(reply) ==
    IF ~reply.clamd THEN "no clamd"
    ELSE IF reply.raises THEN "exception"
    ELSE IF reply.ping # "PONG" THEN "no PONG"
    ELSE IF reply.stream = "" THEN "no stream"
    ELSE ""
UnavailableWays == {"no clamd", "exception", "no PONG", "no stream"}

\* a scan that rejects the upload when the daemon does not answer PONG
scan_rejects_without_pong(reply) ==
    reply.clamd /\ ~reply.raises /\ (reply.ping # "PONG" \/ reply.stream = "FOUND")

\* a scan whose HTTPException is swallowed with the other exceptions
scan_swallows_found(reply) == FALSE

\* scan_file_for_virus: TRUE when it raises HTTPException(400)
scan_file_for_virus(reply) ==
    IF ~reply.clamd THEN FALSE
    ELSE IF reply.raises THEN FALSE
    ELSE IF reply.ping # "PONG" THEN FALSE
    ELSE IF reply.stream # "" /\ reply.stream = "FOUND" THEN TRUE
    ELSE FALSE

(* ------------------------------- state --------------------------------- *)

VARIABLES
    index,      \* Redis: key -> hash
    ttl,        \* Redis: the keys that carry an expiration
    disk,       \* uploads/: file name -> bytes
    up,         \* upload_file calls: position and locals
    dl,         \* download_file calls: position and locals
    cl,         \* the cleanup thread: position and locals
    adm,        \* the admin_delete_file call: position and locals
    sent,       \* history: identifier -> what was uploaded under it
    removed,    \* history: identifiers whose record was removed from the index
    due,        \* history: progress of the cleanup since a record expired
    ncalls,     \* history: number of download_file calls started
    served,     \* history: identifier -> number of calls that returned its bytes
    incs,       \* history: identifier -> increments applied to its downloads_count
    policy      \* history: what upload_file decided for each unavailable scan

vars == <<index, ttl, disk, up, dl, cl, adm, sent, removed, due, ncalls, served,
          incs, policy>>

UpIdle ==
    [pc |-> "idle", content |-> "", filename |-> "", password |-> NonePwd,
     file_id |-> NoId, key |-> "", found |-> FALSE,
     result |-> [code |-> 0, detail |-> "", id |-> NoId, filename |-> ""]]

DlIdle ==
    [pc |-> "idle", file_id |-> NoId, password |-> NonePwd, data |-> EmptyHash,
     late |-> FALSE, prompt |-> FALSE,
     result |-> [code |-> 0, detail |-> "", body |-> "", filename |-> ""]]

ClStart == [pc |-> "listdir", todo |-> {}, cur |-> NoFile]

AdmIdle == [pc |-> "idle", file_id |-> NoId, code |-> 0]

DlFail(code, detail) == [code |-> code, detail |-> detail, body |-> "", filename |-> ""]

(* --------------------------- check_file_info --------------------------- *)

\* lines 157-161: r.hgetall, 404 on no data, else the protected flag and the
\* filename (a record without filename is a KeyError, answered 500)
check_file_info(idx, id) ==
    LET data == HGetAll(idx, id)
    IN  IF DOMAIN data = {}
        THEN [code |-> 404, found |-> FALSE, protected |-> FALSE, filename |-> ""]
        ELSE IF "filename" \notin DOMAIN data
        THEN [code |-> 500, found |-> FALSE, protected |-> FALSE, filename |-> ""]
        ELSE [code |-> 200, found |-> TRUE,
              protected |-> ("password_hash" \in DOMAIN data),
              filename |-> data.filename]

(* ----------------------------- upload_file ----------------------------- *)

\* metadata that keeps a hash for every truthy password, blank ones included
Metadata_HashesBlank(u) ==
    LET base == [filename |-> u.filename, key |-> u.key,
                 max_downloads |-> MAX_DOWNLOADS, downloads_count |-> 0,
                 sender |-> "Anonymous"]
    IN  IF Truthy(u.password)
        THEN HashMerge([password_hash |-> hash_password(Strip(u.password.str))], base)
        ELSE base

\* metadata of upload_file, with the optional password_hash
Metadata(u) ==
    LET base == [filename |-> u.filename, key |-> u.key,
                 max_downloads |-> MAX_DOWNLOADS, downloads_count |-> 0,
                 sender |-> "Anonymous"]
    IN  IF Truthy(u.password) /\ Strip(u.password.str) # <<>>
        THEN HashMerge([password_hash |-> hash_password(Strip(u.password.str))], base)
        ELSE base

\* str(uuid.uuid4()): a value never returned before
Issued == DOMAIN sent \cap UploadIds
CanIssue == Cardinality(Issued) < MaxUploads
NextUuid == UuidValues[Cardinality(Issued) + 1]
\* Fernet.generate_key(): a key never returned before
NextKey == KeyValues[Cardinality(Issued) + 1]

\* lines 176-187: read, scan, generate the key, encrypt, generate the id;
\* `id` and `key` are what uuid4 and Fernet.generate_key return
UploadBegin(u, content, fname, pwd, reply, id, key) ==
    /\ up[u].pc \in {"idle", "done"}
    /\ IF scan_file_for_virus(reply)
       THEN /\ up' = [up EXCEPT ![u] =
                    [UpIdle EXCEPT !.pc = "done", !.content = content,
                        !.filename = fname, !.password = pwd,
                        !.found = (reply.stream = "FOUND"),
                        !.result = [code |-> 400, detail |-> "VIRUS DETECTED",
                                    id |-> NoId, filename |-> ""]]]
            /\ sent' = sent
       ELSE /\ up' = [up EXCEPT ![u] =
                    [UpIdle EXCEPT !.pc = "write", !.content = content,
                        !.filename = fname, !.password = pwd,
                        !.found = (reply.stream = "FOUND"),
                        !.file_id = id, !.key = key]]
            /\ sent' = [i \in DOMAIN sent \cup {id} |->
                          IF i = id
                          THEN [content |-> content, filename |-> fname, password |-> pwd,
                                max_downloads |-> MAX_DOWNLOADS, returned |-> FALSE]
                          ELSE sent[i]]
    /\ UNCHANGED <<index, ttl, disk, dl, cl, adm, removed, due, ncalls, served, incs>>

\* the scan step when uuid4 and generate_key return values never seen before
UploadScan(u, content, fname, pwd, reply) ==
    /\ IF scan_file_for_virus(reply) THEN TRUE ELSE CanIssue
    /\ UploadBegin(u, content, fname, pwd, reply, NextUuid, NextKey)
    /\ UNCHANGED policy

\* lines 189-190: write the blob
UploadWrite(u) ==
    /\ up[u].pc = "write"
    /\ disk' = WriteFile(disk, EncPath(up[u].file_id), Encrypt(up[u].key, up[u].content))
    /\ up' = [up EXCEPT ![u].pc = "hset"]
    /\ UNCHANGED <<index, ttl, dl, cl, adm, sent, removed, due, ncalls, served, incs, policy>>

\* lines 193-205: build the metadata and r.hset it
UploadHset(u) ==
    /\ up[u].pc = "hset"
    /\ index' = HSet(index, up[u].file_id, Metadata(up[u]))
    /\ up' = [up EXCEPT ![u].pc = "expire"]
    /\ UNCHANGED <<ttl, disk, dl, cl, adm, sent, removed, due, ncalls, served, incs, policy>>

\* lines 206-212: r.expire (no effect on a missing key) and return
UploadExpire(u) ==
    /\ up[u].pc = "expire"
    /\ ttl' = IF RExists(index, up[u].file_id) THEN ttl \cup {up[u].file_id} ELSE ttl
    /\ up' = [up EXCEPT ![u].pc = "done",
                         ![u].result = [code |-> 200,
                                        detail |-> "File encrypted and stored securely.",
                                        id |-> up[u].file_id,
                                        filename |-> up[u].filename]]
    /\ sent' = [sent EXCEPT ![up[u].file_id].returned = TRUE]
    /\ UNCHANGED <<index, disk, dl, cl, adm, removed, due, ncalls, served, incs, policy>>

\* line 215: what `except Exception` makes of an error raised after the scan
UpError(u, detail) ==
    [up EXCEPT ![u].pc = "done",
               ![u].result = [code |-> 500, detail |-> detail, id |-> NoId, filename |-> ""]]

\* line 205 raising (Redis unreachable): nothing is stored, line 215 answers 500
UploadHsetFails(u) ==
    /\ up[u].pc = "hset"
    /\ up' = UpError(u, "redis error")
    /\ UNCHANGED <<index, ttl, disk, dl, cl, adm, sent, removed, due, ncalls, served, incs, policy>>

\* line 206 raising (Redis unreachable): no expiration is set, line 215 answers 500
UploadExpireFails(u) ==
    /\ up[u].pc = "expire"
    /\ up' = UpError(u, "redis error")
    /\ UNCHANGED <<index, ttl, disk, dl, cl, adm, sent, removed, due, ncalls, served, incs, policy>>

(* ---------------------------- download_file ---------------------------- *)

\* the quota check off by one: current_count > max_count
QuotaReached_OffByOne(current_count, max_count) == current_count > max_count

\* line 241: if current_count >= max_count
QuotaReached(current_count, max_count) == current_count >= max_count

\* line 238: int(data.get("downloads_count", 0))
CurrentCount(data) ==
    IF "downloads_count" \in DOMAIN data THEN data.downloads_count ELSE 0
\* line 239: int(data.get("max_downloads", 100))
MaxCount(data) ==
    IF "max_downloads" \in DOMAIN data THEN data.max_downloads ELSE MAX_DOWNLOADS

\* a lookup that never asks for the password
Lookup_NoPasswordCheck(data, password) ==
    IF DOMAIN data = {} THEN DlFail(404, "File expired or not found") ELSE DlFail(0, "")

\* lines 229-241 on the hash just read: the response that ends the call
\* (code 0: none) and otherwise the branch taken
Lookup(data, password) ==
    IF DOMAIN data = {} THEN DlFail(404, "File expired or not found")
    ELSE IF "password_hash" \in DOMAIN data /\ ~Truthy(password)
        THEN DlFail(401, "Password required")
    ELSE IF "password_hash" \in DOMAIN data
            /\ hash_password(password.str) # data.password_hash
        THEN DlFail(403, "Wrong password")
    ELSE DlFail(0, "")

DlDone(l, result) ==
    [DlIdle EXCEPT !.pc = "done", !.file_id = l.file_id, !.password = l.password,
                   !.late = l.late, !.prompt = l.prompt, !.result = result]

\* lines 228-241: r.hgetall, password check, quota check
DlHgetall(d, id, pwd, limit) ==
    /\ dl[d].pc \in {"idle", "done"}
    /\ ncalls < limit
    /\ ncalls' = ncalls + 1
    /\ LET data == HGetAll(index, id)
           l == [DlIdle EXCEPT !.file_id = id, !.password = pwd, !.data = data,
                               !.late = (id \in removed),
                               !.prompt = (id \in DOMAIN sent /\ sent[id].returned)]
           r == Lookup(data, pwd)
       IN  dl' = [dl EXCEPT ![d] =
                IF r.code # 0 THEN DlDone(l, r)
                ELSE IF QuotaReached(CurrentCount(data), MaxCount(data))
                    THEN [l EXCEPT !.pc = "delete"]
                ELSE [l EXCEPT !.pc = "hincrby"]]
    /\ UNCHANGED <<index, ttl, disk, up, cl, adm, sent, removed, due, served, incs, policy>>

\* line 243: r.delete(file_id)
DlDelete(d) ==
    /\ dl[d].pc = "delete"
    /\ index' = RDelete(index, dl[d].file_id)
    /\ ttl' = ttl \ {dl[d].file_id}
    /\ removed' = IF RExists(index, dl[d].file_id)
                  THEN removed \cup {dl[d].file_id} ELSE removed
    /\ dl' = [dl EXCEPT ![d].pc = "rm_exists"]
    /\ UNCHANGED <<disk, up, cl, adm, sent, due, ncalls, served, incs, policy>>

\* line 245: os.path.exists(path)
DlRmExists(d) ==
    /\ dl[d].pc = "rm_exists"
    /\ dl' = [dl EXCEPT ![d] =
            IF PathExists(disk, EncPath(dl[d].file_id))
            THEN [dl[d] EXCEPT !.pc = "rm"]
            ELSE DlDone(dl[d], DlFail(410, "Download limit reached (File deleted)"))]
    /\ UNCHANGED <<index, ttl, disk, up, cl, adm, sent, removed, due, ncalls, served, incs, policy>>

\* lines 245-246: os.remove(path), which raises if the file has gone meanwhile
DlRm(d) ==
    /\ dl[d].pc = "rm"
    /\ IF PathExists(disk, EncPath(dl[d].file_id))
       THEN /\ disk' = RemoveFile(disk, EncPath(dl[d].file_id))
            /\ dl' = [dl EXCEPT ![d] =
                    DlDone(dl[d], DlFail(410, "Download limit reached (File deleted)"))]
       ELSE /\ disk' = disk
            /\ dl' = [dl EXCEPT ![d] = DlDone(dl[d], DlFail(500, "Internal Server Error"))]
    /\ UNCHANGED <<index, ttl, up, cl, adm, sent, removed, due, ncalls, served, incs, policy>>

\* line 249: r.hincrby(file_id, "downloads_count", 1)
DlHincrby(d) ==
    /\ dl[d].pc = "hincrby"
    /\ index' = HIncrBy(index, dl[d].file_id, "downloads_count", 1)
    /\ dl' = [dl EXCEPT ![d].pc = "exists"]
    /\ incs' = [incs EXCEPT ![dl[d].file_id] =
                  @ + CurrentCount(HGetAll(index', dl[d].file_id))
                    - CurrentCount(HGetAll(index, dl[d].file_id))]
    /\ UNCHANGED <<ttl, disk, up, cl, adm, sent, removed, due, ncalls, served, policy>>

\* line 252: os.path.exists(file_path)
DlExists(d) ==
    /\ dl[d].pc = "exists"
    /\ dl' = [dl EXCEPT ![d] =
            IF PathExists(disk, EncPath(dl[d].file_id))
            THEN [dl[d] EXCEPT !.pc = "read"]
            ELSE DlDone(dl[d], DlFail(404, "File missing from disk"))]
    /\ UNCHANGED <<index, ttl, disk, up, cl, adm, sent, removed, due, ncalls, served, incs, policy>>

\* lines 254-265: read the blob, decrypt with data['key'], respond
ReadAndDecrypt(dsk, path, data) ==
    IF ~PathExists(dsk, path) THEN DlFail(500, "Decryption Failed")
    ELSE IF "key" \notin DOMAIN data THEN DlFail(500, "Decryption Failed")
    ELSE IF ~DecryptOk(data.key, dsk[path]) THEN DlFail(500, "Decryption Failed")
    ELSE IF "filename" \notin DOMAIN data THEN DlFail(500, "Internal Server Error")
    ELSE [code |-> 200, detail |-> "", body |-> Decrypt(data.key, dsk[path]),
          filename |-> data.filename]

DlRead(d) ==
    /\ dl[d].pc = "read"
    /\ LET r == ReadAndDecrypt(disk, EncPath(dl[d].file_id), dl[d].data)
       IN  /\ dl' = [dl EXCEPT ![d] = DlDone(dl[d], r)]
           /\ served' = IF r.code = 200
                        THEN [served EXCEPT ![dl[d].file_id] = @ + 1] ELSE served
    /\ UNCHANGED <<index, ttl, disk, up, cl, adm, sent, removed, due, ncalls, incs, policy>>

(* ------------------------- index expiry (Redis) ------------------------ *)

\* Redis drops a key whose expiration has passed; its blob stays on disk
TTLExpire(id) ==
    /\ id \in ttl
    /\ RExists(index, id)
    /\ index' = RDelete(index, id)
    /\ ttl' = ttl \ {id}
    /\ removed' = removed \cup {id}
    /\ due' = IF PathExists(disk, EncPath(id)) THEN [due EXCEPT ![id] = "expired"] ELSE due
    /\ UNCHANGED <<disk, up, dl, cl, adm, sent, ncalls, served, incs, policy>>

(* ------------------------ cleanup_expired_files ------------------------ *)

\* history: a cycle that began after the expiry begins / has run to its end
CycleBegins(du) == [i \in DOMAIN du |-> IF du[i] = "expired" THEN "cycle" ELSE du[i]]
CycleEnds(du) == [i \in DOMAIN du |-> IF du[i] = "cycle" THEN "passed" ELSE du[i]]

\* the for loop moves on: next file name, or time.sleep when none is left
ClNext(todo) ==
    [pc |-> IF todo = {} THEN "sleep" ELSE "exists", todo |-> todo, cur |-> NoFile]

\* line 274-275: os.listdir(UPLOAD_DIR), keeping the .enc names
ListEnc(dsk) == {name \in DOMAIN dsk : EndsWithEnc(name)}

CleanupListdir ==
    /\ cl.pc = "listdir"
    /\ cl' = ClNext(ListEnc(disk))
    /\ due' = IF ListEnc(disk) = {} THEN CycleEnds(CycleBegins(due)) ELSE CycleBegins(due)
    /\ UNCHANGED <<index, ttl, disk, up, dl, adm, sent, removed, ncalls, served, incs, policy>>

\* lines 276-277: r.exists(file_id) for the next name of the listing
CleanupExists(name) ==
    /\ cl.pc = "exists"
    /\ name \in cl.todo
    /\ IF ~RExists(index, IdOfName(name))
       THEN /\ cl' = [cl EXCEPT !.pc = "remove", !.cur = name]
            /\ due' = due
       ELSE /\ cl' = ClNext(cl.todo \ {name})
            /\ due' = IF cl.todo \ {name} = {} THEN CycleEnds(due) ELSE due
    /\ UNCHANGED <<index, ttl, disk, up, dl, adm, sent, removed, ncalls, served, incs, policy>>

\* lines 278-280: os.remove(path); OSError is passed over
CleanupRemove ==
    /\ cl.pc = "remove"
    /\ disk' = IF PathExists(disk, cl.cur) THEN RemoveFile(disk, cl.cur) ELSE disk
    /\ cl' = ClNext(cl.todo \ {cl.cur})
    /\ due' = IF cl.todo \ {cl.cur} = {} THEN CycleEnds(due) ELSE due
    /\ UNCHANGED <<index, ttl, up, dl, adm, sent, removed, ncalls, served, incs, policy>>

\* line 277 raising: r.exists is outside the inner try, so line 281 catches
\* the error after the for loop has been left; the cycle goes to sleep
CleanupExistsFails(name) ==
    /\ cl.pc = "exists"
    /\ name \in cl.todo
    /\ cl' = [pc |-> "sleep", todo |-> {}, cur |-> NoFile]
    /\ UNCHANGED <<index, ttl, disk, up, dl, adm, sent, removed, due, ncalls, served, incs, policy>>

\* line 279 raising OSError: line 280 passes over it, the blob stays
CleanupRemoveFails ==
    /\ cl.pc = "remove"
    /\ cl' = ClNext(cl.todo \ {cl.cur})
    /\ due' = IF cl.todo \ {cl.cur} = {} THEN CycleEnds(due) ELSE due
    /\ UNCHANGED <<index, ttl, disk, up, dl, adm, sent, removed, ncalls, served, incs, policy>>

\* line 282: time.sleep(CLEANUP_INTERVAL) returns
CleanupSleep ==
    /\ cl.pc = "sleep"
    /\ cl' = ClStart
    /\ UNCHANGED <<index, ttl, disk, up, dl, adm, sent, removed, due, ncalls, served, incs, policy>>

(* --------------------------- admin_delete_file ------------------------- *)

ADMIN_SECRET == "admin"
AdminKeys == {"admin", "guess"}

\* lines 135-141: key check, r.exists(file_id)
AdminExists(id, key) ==
    /\ adm.pc \in {"idle", "done"}
    /\ adm' = IF key # ADMIN_SECRET THEN [AdmIdle EXCEPT !.pc = "done", !.code = 403]
              ELSE IF RExists(index, id) THEN [AdmIdle EXCEPT !.pc = "delete", !.file_id = id]
              ELSE [AdmIdle EXCEPT !.pc = "path_exists", !.file_id = id]
    /\ UNCHANGED <<index, ttl, disk, up, dl, cl, sent, removed, due, ncalls, served, incs, policy>>

\* line 142: r.delete(file_id)
AdminDelete ==
    /\ adm.pc = "delete"
    /\ index' = RDelete(index, adm.file_id)
    /\ ttl' = ttl \ {adm.file_id}
    /\ removed' = IF RExists(index, adm.file_id)
                  THEN removed \cup {adm.file_id} ELSE removed
    /\ adm' = [adm EXCEPT !.pc = "path_exists"]
    /\ UNCHANGED <<disk, up, dl, cl, sent, due, ncalls, served, incs, policy>>

\* line 146: os.path.exists(path)
AdminPathExists ==
    /\ adm.pc = "path_exists"
    /\ adm' = IF PathExists(disk, EncPath(adm.file_id))
              THEN [adm EXCEPT !.pc = "remove"]
              ELSE [AdmIdle EXCEPT !.pc = "done", !.code = 200]
    /\ UNCHANGED <<index, ttl, disk, up, dl, cl, sent, removed, due, ncalls, served, incs, policy>>

\* lines 147-148: os.remove(path), which raises if the file has gone meanwhile
AdminRemove ==
    /\ adm.pc = "remove"
    /\ disk' = IF PathExists(disk, EncPath(adm.file_id))
               THEN RemoveFile(disk, EncPath(adm.file_id)) ELSE disk
    /\ adm' = [AdmIdle EXCEPT !.pc = "done",
                  !.code = IF PathExists(disk, EncPath(adm.file_id)) THEN 200 ELSE 500]
    /\ UNCHANGED <<index, ttl, up, dl, cl, sent, removed, due, ncalls, served, incs, policy>>

(* ------------------------------- crash --------------------------------- *)

\* The process dies and is started again: every call in progress is lost and
\* the cleanup thread starts over; Redis and the uploads directory stay.
Crash ==
    /\ ~ /\ \A u \in Uploaders : up[u].pc \in {"idle", "done"}
         /\ \A d \in Downloaders : dl[d].pc \in {"idle", "done"}
         /\ adm.pc \in {"idle", "done"}
    /\ up' = [u \in Uploaders |-> UpIdle]
    /\ dl' = [d \in Downloaders |-> DlIdle]
    /\ cl' = ClStart
    /\ adm' = AdmIdle
    /\ due' = [i \in DOMAIN due |-> IF due[i] = "cycle" THEN "expired" ELSE due[i]]
    /\ UNCHANGED <<index, ttl, disk, sent, removed, ncalls, served, incs, policy>>

(* ------------------------------- Init ---------------------------------- *)

Passwords == {NonePwd, Str(<<>>), Str(<<"a">>), Str(<<" ", "a">>), Str(<<"b">>), Str(<<" ">>)}

\* A record as upload_file leaves it (lines 193-206), for a ceiling `max` and
\* after `count` downloads.  download_file takes the ceiling from the record
\* (line 239), so a record written with another ceiling than MAX_DOWNLOADS is
\* an input of download_file as well.
Stored(pwd, max, count) ==
    [Metadata([filename |-> "report.pdf", key |-> "k0", password |-> pwd])
        EXCEPT !.max_downloads = max, !.downloads_count = count]

\* ceilings and counts of the record found at start: up to MaxPreQuota
\* downloads left, under a small ceiling or under the program's own
PreQuotas ==
    {<<m, 0>> : m \in 1..MaxPreQuota}
        \cup {<<MAX_DOWNLOADS, MAX_DOWNLOADS - k>> : k \in 1..MaxPreQuota}

\* the stores hold the record and blob of PreId, every call is idle
InitWith(pwd, max, count) ==
    /\ index = [i \in {PreId} |-> Stored(pwd, max, count)]
    /\ ttl = {PreId}
    /\ disk = [p \in {EncPath(PreId)} |-> Encrypt("k0", "abc")]
    /\ sent = [i \in {PreId} |->
                [content |-> "abc", filename |-> "report.pdf", password |-> pwd,
                 max_downloads |-> max, returned |-> TRUE]]
    /\ up = [u \in Uploaders |-> UpIdle]
    /\ dl = [d \in Downloaders |-> DlIdle]
    /\ cl = ClStart
    /\ adm = AdmIdle
    /\ removed = {}
    /\ due = [i \in Ids |-> "no"]
    /\ ncalls = 0
    /\ served = [i \in Ids |-> 0]
    /\ incs = [i \in Ids |-> 0]
    /\ policy = {}

Init == \E q \in PreQuotas : InitWith(NonePwd, q[1], q[2])

\* nothing uploaded yet: both stores empty
InitEmpty ==
    /\ index = EmptyHash
    /\ ttl = {}
    /\ disk = EmptyHash
    /\ sent = EmptyHash
    /\ up = [u \in Uploaders |-> UpIdle]
    /\ dl = [d \in Downloaders |-> DlIdle]
    /\ cl = ClStart
    /\ adm = AdmIdle
    /\ removed = {}
    /\ due = [i \in Ids |-> "no"]
    /\ ncalls = 0
    /\ served = [i \in Ids |-> 0]
    /\ incs = [i \in Ids |-> 0]
    /\ policy = {}

(* ------------------------------- Next ---------------------------------- *)

UploadPasswords == {NonePwd}
DownloadPasswords == {NonePwd}

UploadStep(P) ==
    \/ \E u \in Uploaders, c \in Contents, f \in FileNames, p \in P,
          reply \in ScanReplies : UploadScan(u, c, f, p, reply)
    \/ \E u \in Uploaders : UploadWrite(u)
    \/ \E u \in Uploaders : UploadHset(u)
    \/ \E u \in Uploaders : UploadExpire(u)

DownloadStep(D, I, P, limit) ==
    \/ \E d \in D, id \in I, p \in P : DlHgetall(d, id, p, limit)
    \/ \E d \in D : DlDelete(d)
    \/ \E d \in D : DlRmExists(d)
    \/ \E d \in D : DlRm(d)
    \/ \E d \in D : DlHincrby(d)
    \/ \E d \in D : DlExists(d)
    \/ \E d \in D : DlRead(d)

CleanupStep ==
    \/ CleanupListdir
    \/ \E name \in cl.todo : CleanupExists(name)
    \/ CleanupRemove
    \/ CleanupSleep

AdminStep ==
    \/ \E id \in Ids, key \in AdminKeys : AdminExists(id, key)
    \/ AdminDelete
    \/ AdminPathExists
    \/ AdminRemove

\* the release side: concurrent downloads of the stored file, index expiry,
\* the cleanup thread and the admin delete
NextRelease ==
    \/ DownloadStep({"d1", "d2"}, {PreId}, DownloadPasswords, MaxCalls)
    \/ TTLExpire(PreId)
    \/ CleanupStep
    \/ AdminStep

SpecRelease == Init /\ [][NextRelease]_vars

\* the admission side: uploads, the cleanup thread, crashes, index expiry and
\* one client downloading what was uploaded
NextAdmission ==
    \/ UploadStep(UploadPasswords)
    \/ CleanupStep
    \/ \E id \in UploadIds : TTLExpire(id)
    \/ \E id \in UploadIds, p \in DownloadPasswords : DlHgetall("d1", id, p, MaxCalls)
    \/ DlHincrby("d1")
    \/ DlExists("d1")
    \/ DlRead("d1")
    \/ Crash

SpecAdmission == InitEmpty /\ [][NextAdmission]_vars

(* ----------------------------------------------------------------------- *)
(* Concurrent downloads of a file with one download left                   *)
(* ----------------------------------------------------------------------- *)

\* download_file calls racing on PreId, stored with max_downloads = 1 and
\* downloads_count = 0, no password; nothing else runs
InitRace == InitWith(NonePwd, 1, 0)
NextRace == DownloadStep(Downloaders, {PreId}, {NonePwd}, MaxRaceCalls)
SpecRace == InitRace /\ [][NextRace]_vars

AllCallsDone ==
    /\ ncalls = MaxRaceCalls
    /\ \A d \in Downloaders : dl[d].pc \in {"idle", "done"}

\* C1: of the concurrent download_file calls on a record with max_downloads = 1
\* and downloads_count = 0, exactly one returns the bytes and every other one
\* fails with 410 or 404; there is never a second success.
C1_ExactlyOneSuccess ==
    /\ served[PreId] <= 1
    /\ \A d \in Downloaders :
          dl[d].pc = "done" => dl[d].result.code \in {200, 410, 404}
    /\ AllCallsDone => served[PreId] = 1

(* ----------------------------------------------------------------------- *)
(* The counter and its ceiling                                             *)
(* ----------------------------------------------------------------------- *)

\* C2: every record in the index has downloads_count <= max_downloads
\* (records that hold both fields).
C2_CountWithinMax ==
    \A id \in DOMAIN index :
        {"downloads_count", "max_downloads"} \subseteq DOMAIN index[id]
            => index[id].downloads_count <= index[id].max_downloads

(* ----------------------------------------------------------------------- *)
(* Downloads one after another                                             *)
(* ----------------------------------------------------------------------- *)

\* One client downloads PreId again and again with the password of the file;
\* a call starts when the one before has returned, and nothing else runs.
SeqPasswords == {NonePwd, Str(<<"a">>)}
SeqQuotas == (1..MaxPreQuota) \cup {MAX_DOWNLOADS}
InitSeq == \E p \in SeqPasswords, m \in SeqQuotas : InitWith(p, m, 0)
NextSeq == DownloadStep({"d1"}, {PreId}, {sent[PreId].password}, MaxSeqCalls)
SpecSeq == InitSeq /\ [][NextSeq]_vars

\* C3: of the calls made one after another on a file with max_downloads = N,
\* calls 1..N return the bytes, call N+1 fails with 410 and leaves neither
\* record nor blob, and every later call fails with 404.
C3_SequentialQuota ==
    LET N == sent[PreId].max_downloads
        l == dl["d1"]
    IN  l.pc = "done" =>
          /\ ncalls <= N =>
                /\ l.result.code = 200
                /\ l.result.body = sent[PreId].content
                /\ l.result.filename = sent[PreId].filename
                /\ served[PreId] = ncalls
          /\ ncalls = N + 1 => l.result.code = 410
          /\ ncalls > N + 1 => l.result.code = 404
          /\ ncalls >= N + 1 =>
                /\ ~RExists(index, PreId)
                /\ ~PathExists(disk, EncPath(PreId))
                /\ served[PreId] = N

\* the call after the 410 has answered 404, for the program's own ceiling
C3_Witness ==
    /\ sent[PreId].max_downloads = MAX_DOWNLOADS
    /\ ncalls = MAX_DOWNLOADS + 2
    /\ dl["d1"].pc = "done"
    /\ dl["d1"].result.code = 404
    /\ served[PreId] = MAX_DOWNLOADS

(* ----------------------------------------------------------------------- *)
(* Records and their blobs                                                 *)
(* ----------------------------------------------------------------------- *)

\* C4: an identifier that has a record in the index has its blob on disk.
C4_RecordHasBlob ==
    \A id \in DOMAIN index : PathExists(disk, EncPath(id))

\* C5: when upload_file returns its identifier, the blob it wrote is still on
\* disk, whatever the cleanup thread did meanwhile.
C5_BlobSurvivesUpload ==
    [][\A u \in Uploaders :
          (up[u].pc = "expire" /\ up'[u].pc = "done")
              => PathExists(disk', EncPath(up'[u].result.id))]_vars

\* C6: a download_file call that starts after the record of its identifier was
\* removed from the index fails with 404.
C6_GoneMeansNotFound ==
    \A d \in Downloaders :
        (dl[d].pc = "done" /\ dl[d].late) => dl[d].result.code = 404

\* C7: once a complete cleanup cycle that began after the expiry of a record has
\* ended, the blob of that record is no longer on disk.
C7_BlobCollectedAfterExpiry ==
    \A id \in Ids : due[id] = "passed" => ~PathExists(disk, EncPath(id))

(* ----------------------------------------------------------------------- *)
(* Passwords                                                               *)
(* ----------------------------------------------------------------------- *)

\* Uploads with any password and one client downloading what was uploaded
\* with any password; no expiry, no cleanup.
NextAuth ==
    \/ UploadStep(Passwords)
    \/ \E id \in UploadIds, p \in Passwords : DlHgetall("d1", id, p, MaxCalls)
    \/ DlHincrby("d1")
    \/ DlExists("d1")
    \/ DlRead("d1")

SpecAuth == InitEmpty /\ [][NextAuth]_vars

\* upload_file stored a password_hash for this password (line 201)
AcceptedAsPassword(P) == Truthy(P) /\ Strip(P.str) # <<>>

\* C8: for a file uploaded with password P, a later download_file call with P
\* succeeds, one with another supplied password (the empty string included)
\* fails with 403, and one with no password fails with 401.
C8_PasswordOutcomes ==
    LET l == dl["d1"]
    IN  (l.pc = "done" /\ l.prompt /\ AcceptedAsPassword(sent[l.file_id].password)) =>
          /\ l.password = sent[l.file_id].password => l.result.code = 200
          /\ (~l.password.none /\ l.password # sent[l.file_id].password)
                => l.result.code = 403
          /\ l.password.none => l.result.code = 401

(* ----------------------------------------------------------------------- *)
(* Round trip                                                              *)
(* ----------------------------------------------------------------------- *)

\* C9: a download_file call without password, started once the upload of a
\* file without password has returned and with no expiry of its record, returns
\* the uploaded bytes and the original filename.
C9_RoundTrip ==
    LET l == dl["d1"]
    IN  (/\ l.pc = "done"
         /\ l.prompt
         /\ l.file_id \notin removed
         /\ sent[l.file_id].password = NonePwd
         /\ l.password = NonePwd) =>
          /\ l.result.code = 200
          /\ l.result.body = sent[l.file_id].content
          /\ l.result.filename = sent[l.file_id].filename

(* ----------------------------------------------------------------------- *)
(* Infected content                                                        *)
(* ----------------------------------------------------------------------- *)

\* uploads alone with the cleanup thread, index expiry and crashes
NextIntake ==
    \/ UploadStep(UploadPasswords)
    \/ CleanupStep
    \/ \E id \in UploadIds : TTLExpire(id)
    \/ Crash

SpecIntake == InitEmpty /\ [][NextIntake]_vars

\* C10: an upload whose scan reports FOUND ends with a 400 that carries the
\* virus report, in the step that scans, and that step leaves the index and
\* the blob store as they were; the upload takes no other step.
C10_InfectedNothingPersisted ==
    [][\A u \in Uploaders :
          (up'[u].found /\ up'[u] # up[u]) =>
              /\ up'[u].pc = "done"
              /\ up'[u].result.code = 400
              /\ up'[u].result.detail = "VIRUS DETECTED"
              /\ up'[u].result.id = NoId
              /\ UNCHANGED <<index, ttl, disk>>]_vars

\* an infected upload was rejected while a file was stored
C10_Witness ==
    \E u \in Uploaders :
        /\ up[u].found
        /\ up[u].pc = "done"
        /\ up[u].result.code = 400
        /\ DOMAIN index # {}
        /\ DOMAIN disk # {}

(* ----------------------------------------------------------------------- *)
(* Redis and disk errors: uploads and the cleanup loop over a store that   *)
(* holds one file, where r.hset, r.expire, r.exists and os.remove may      *)
(* raise.                                                                  *)
(* ----------------------------------------------------------------------- *)

FaultStep ==
    \/ \E u \in Uploaders : UploadHsetFails(u)
    \/ \E u \in Uploaders : UploadExpireFails(u)
    \/ \E name \in cl.todo : CleanupExistsFails(name)
    \/ CleanupRemoveFails

NextFaults ==
    \/ UploadStep(UploadPasswords)
    \/ CleanupStep
    \/ FaultStep
    \/ \E id \in Ids : TTLExpire(id)

SpecFaults == Init /\ [][NextFaults]_vars

\* C11: when an upload is answered 500 after its blob was written (r.hset
\* or r.expire raised), nothing of that upload remains: its blob is not on
\* disk and the index holds no record under its identifier.
C11_FailedUploadLeavesNothing ==
    \A u \in Uploaders :
        (up[u].pc = "done" /\ up[u].result.code = 500) =>
            /\ ~PathExists(disk, EncPath(up[u].file_id))
            /\ ~RExists(index, up[u].file_id)

(* ----------------------------------------------------------------------- *)
(* The scan policy: uploads one after the other, the decision taken on     *)
(* every scan that gave no verdict being recorded in `policy`.             *)
(* ----------------------------------------------------------------------- *)

\* line 177 as seen by the client: rejected with 400, or carried on
Decision(u_rec) == IF u_rec.result.code = 400 THEN "reject" ELSE "admit"

ScanObserved(u, content, fname, reply) ==
    /\ Cardinality(Issued) < MaxScanUploads
    /\ UploadBegin(u, content, fname, NonePwd, reply, NextUuid, NextKey)
    /\ policy' = IF Way(reply) = "" THEN policy
                 ELSE policy \cup {<<Way(reply), Decision(up'[u])>>}

NextScan ==
    \/ \E u \in Uploaders, c \in Contents, f \in FileNames, reply \in ScanReplies :
          ScanObserved(u, c, f, reply)
    \/ \E u \in Uploaders : UploadWrite(u)
    \/ \E u \in Uploaders : UploadHset(u)
    \/ \E u \in Uploaders : UploadExpire(u)

SpecScan == InitEmpty /\ [][NextScan]_vars

\* C12: whatever made the scan unavailable (no clamd library, no PONG, an
\* exception, a result without 'stream'), upload_file takes the same
\* decision: no two unavailable scans were decided differently.
C12_OnePolicy == \A p \in policy, q \in policy : p[2] = q[2]

\* every way of being unavailable has occurred and an upload was stored
C12_Witness ==
    /\ {p[1] : p \in policy} = UnavailableWays
    /\ \E u \in Uploaders : up[u].pc = "done" /\ up[u].result.code = 200

(* ----------------------------------------------------------------------- *)
(* Tampering: concurrent downloads of the stored file while somebody who   *)
(* can write in uploads/ and does not hold the key replaces the blob.      *)
(* ----------------------------------------------------------------------- *)

\* blobs made without the key of the file: a token made with another key,
\* and bytes that are no token at all
ForgedBlobs == {Encrypt("evil", c) : c \in Contents} \cup {Encrypt("", "")}

\* the file read by line 255 is overwritten in place
Tamper(id, blob) ==
    /\ PathExists(disk, EncPath(id))
    /\ blob # disk[EncPath(id)]
    /\ disk' = WriteFile(disk, EncPath(id), blob)
    /\ UNCHANGED <<index, ttl, up, dl, cl, adm, sent, removed, due, ncalls, served, incs, policy>>

NextTamper ==
    \/ DownloadStep({"d1", "d2"}, {PreId}, DownloadPasswords, MaxCalls)
    \/ \E blob \in ForgedBlobs : Tamper(PreId, blob)

SpecTamper == Init /\ [][NextTamper]_vars

\* the blob of `id` is on disk and is not the ciphertext the upload wrote
\* with the key of the record
Tampered(id, key) ==
    /\ PathExists(disk, EncPath(id))
    /\ disk[EncPath(id)] # Encrypt(key, sent[id].content)

\* C13: a download that passed lookup, authentication and the quota check
\* and reads a blob that differs from the ciphertext written at upload
\* fails with 500 'Decryption Failed' and returns no bytes.
C13_TamperedNeverServed ==
    [][\A d \in Downloaders :
          (/\ dl[d].pc = "read"
           /\ dl'[d].pc = "done"
           /\ Tampered(dl[d].file_id, dl[d].data.key)) =>
              /\ dl'[d].result.code = 500
              /\ dl'[d].result.detail = "Decryption Failed"
              /\ dl'[d].result.body = ""
              /\ served' = served]_vars

\* a download of the tampered blob has been refused with 500
C13_Witness ==
    \E d \in Downloaders :
        /\ dl[d].pc = "done"
        /\ dl[d].result.code = 500
        /\ dl[d].result.detail = "Decryption Failed"
        /\ RExists(index, dl[d].file_id)
        /\ Tampered(dl[d].file_id, index[dl[d].file_id].key)

(* ----------------------------------------------------------------------- *)

\* C14: a download that has passed the quota check and incremented the
\* counter is not made to fail by the deletion a concurrent call performs
\* on quota exhaustion: it is answered neither 404 'File missing from
\* disk' nor 500.
C14_InFlightNotFailed ==
    \A d \in Downloaders :
        dl[d].pc = "done" =>
            /\ ~(dl[d].result.code = 404 /\ dl[d].result.detail = "File missing from disk")
            /\ dl[d].result.code # 500

(* ----------------------------------------------------------------------- *)

\* the calls on `id` that are past line 249 and have not answered yet
PastIncrement(id) ==
    {d \in Downloaders : dl[d].file_id = id /\ dl[d].pc \in {"exists", "read"}}

\* C15: the counter is incremented before the blob is read and before any
\* byte is returned, once per call: for every identifier, the calls that
\* returned its bytes, together with the calls now between the increment
\* and their answer, are never more than the increments applied; a call
\* that failed after its increment has consumed its unit all the same.
C15_IncrementBeforeBytes ==
    \A id \in Ids : served[id] + Cardinality(PastIncrement(id)) <= incs[id]

\* two increments, one call served and one that failed after its increment
C15_Witness ==
    /\ incs[PreId] = 2
    /\ served[PreId] = 1
    /\ \E d \in Downloaders :
          /\ dl[d].pc = "done"
          /\ dl[d].result.detail = "File missing from disk"

(* ----------------------------------------------------------------------- *)

\* C16: an error on one blob (r.exists or os.remove raising) does not abort
\* the cleanup cycle: the cycle goes to sleep only from the last name of
\* its listing, every other listed blob having been checked before.
C16_CycleCoversEveryBlob ==
    [][(cl.pc \in {"exists", "remove"} /\ cl'.pc = "sleep") =>
          Cardinality(cl.todo) <= 1]_vars

(* ----------------------------------------------------------------------- *)

\* The password gate: uploads of one content with any password, and one
\* client downloading what was uploaded with any password; no expiry, no
\* cleanup.
GateContents == {"abc"}

NextGate ==
    \/ \E u \in Uploaders, c \in GateContents, f \in FileNames, p \in Passwords,
          reply \in ScanReplies : UploadScan(u, c, f, p, reply)
    \/ \E u \in Uploaders : UploadWrite(u)
    \/ \E u \in Uploaders : UploadHset(u)
    \/ \E u \in Uploaders : UploadExpire(u)
    \/ \E id \in UploadIds, p \in Passwords : DlHgetall("d1", id, p, MaxCalls)
    \/ DlHincrby("d1")
    \/ DlExists("d1")
    \/ DlRead("d1")

SpecGate == InitEmpty /\ [][NextGate]_vars

\* the password is a string with a character that is not whitespace
HasVisibleChar(P) == ~P.none /\ \E i \in 1..Len(P.str) : ~IsSpace(P.str[i])

\* C17: the record of an upload holds password_hash exactly when the
\* password is non-empty after stripping whitespace; a file uploaded with an
\* absent, empty or blank password is reported not protected by
\* check_file_info and is released by download_file without any password.
C17_HashIffVisiblePassword ==
    /\ \A id \in DOMAIN index :
          /\ ("password_hash" \in DOMAIN index[id]) <=> HasVisibleChar(sent[id].password)
          /\ check_file_info(index, id).code = 200
          /\ check_file_info(index, id).protected <=> HasVisibleChar(sent[id].password)
    /\ LET l == dl["d1"]
       IN  (/\ l.pc = "done"
            /\ l.prompt
            /\ l.password.none
            /\ ~HasVisibleChar(sent[l.file_id].password)) => l.result.code = 200

\* a file uploaded with a blank password was released without password
C17_Witness ==
    LET l == dl["d1"]
    IN  /\ l.pc = "done"
        /\ l.password.none
        /\ l.result.code = 200
        /\ sent[l.file_id].password = Str(<<" ">>)
        /\ ~check_file_info(index, l.file_id).protected

(* ----------------------------------------------------------------------- *)
(* Identifier collisions: uploads over a store that holds one file, where  *)
(* uuid4 may return any identifier, the one of the stored file included.   *)
(* ----------------------------------------------------------------------- *)

NextCollide ==
    \/ \E u \in Uploaders, c \in Contents, f \in FileNames, reply \in ScanReplies,
          id \in Ids, k \in 1..(MaxUploads + 1) :
          UploadBegin(u, c, f, NonePwd, reply, id, KeyValues[k]) /\ UNCHANGED policy
    \/ \E u \in Uploaders : UploadWrite(u)
    \/ \E u \in Uploaders : UploadHset(u)
    \/ \E u \in Uploaders : UploadExpire(u)

SpecCollide == Init /\ [][NextCollide]_vars

\* C18: upload_file never overwrites an existing blob or record: a blob that
\* is on disk before a step of an upload has the same bytes after it, and a
\* record that is in the index keeps its key and its counter.
C18_NeverOverwrites ==
    [][/\ \A path \in DOMAIN disk : PathExists(disk', path) /\ disk'[path] = disk[path]
       /\ \A id \in DOMAIN index : RExists(index', id) /\ index'[id] = index[id]]_vars

(* ----------------------------------------------------------------------- *)

\* an upload is between its r.hset and its r.expire on `id`
BeingStored(id) == \E u \in Uploaders : up[u].pc = "expire" /\ up[u].file_id = id

\* C19: every record of the index has filename, key, max_downloads and
\* downloads_count and carries an expiration, in every state (the moment
\* between r.hset and r.expire of the upload that writes it set aside).
C19_RecordsCompleteWithTTL ==
    \A id \in DOMAIN index :
        ~BeingStored(id) =>
            /\ {"filename", "key", "max_downloads", "downloads_count"}
                    \subseteq DOMAIN index[id]
            /\ id \in ttl

(* ----------------------------------------------------------------------- *)

\* the answers of lines 229, 233 and 235
Refused(result) ==
    \/ result.code = 404 /\ result.detail = "File expired or not found"
    \/ result.code = 401
    \/ result.code = 403

\* the call found a record and, if the record has a password, gave it
Authorized(l) ==
    /\ DOMAIN l.data # {}
    /\ "password_hash" \in DOMAIN l.data =>
          (~l.password.none /\ hash_password(l.password.str) = l.data.password_hash)

====
